---- MODULE Spec2Model ----
(***************************************************************************)
(* Model of src/src/vcpkg/configure-environment.cpp: provisioning of the   *)
(* vcpkg-artifacts bundle (version gate, download, extract, swap, marker), *)
(* construction of the delegate's command line, and argument forwarding.   *)
(*                                                                         *)
(* The file system is modelled by three objects: the live installation     *)
(* directory vcpkg_artifacts_path, the staging directory temp returned by  *)
(* extract_archive_to_temp_subdirectory, and the bundle tarball in the     *)
(* downloads directory.  A directory is a record [exists, files] whose     *)
(* files are <<name, content>> pairs.                                      *)
(***************************************************************************)
EXTENDS Integers, Sequences, FiniteSets, TLC

\* ------------------------------------------------------------------ bounds
\* Largest number of forwarded user arguments drawn for one run.
MaxArgs == 2
\* Number of consecutive runs of the command on the same file system.
MaxRuns == 2

\* --------------------------------------------------------------- constants
\* VCPKG_BASE_VERSION_AS_STRING of the running build, and an older build's.
BaseVersion == "v2"
OtherVersion == "v1"
\* Stands for a version.txt whose read fails with an error other than ENOENT.
Unreadable == "<unreadable>"

MainJs == "main.js"
VersionTxt == "version.txt"
DevelopmentTxt == "artifacts-development.txt"
LibFile == "lib"

Modes == {"pinned", "latest"}

VARIABLES
    mode,                 \* "pinned" iff VCPKG_STANDALONE_BUNDLE_SHA is defined
    provision,            \* paths.try_provision_vcpkg_artifacts()
    vcpkg_artifacts_path, \* the live installation directory
    temp,                 \* staging: [exists, sub], sub = temp / "vcpkg-artifacts"
    tarball,              \* bundle tarball: "none" | "stale" | "fresh"
    pc,                   \* the statement the run is at
    exit,                 \* [kind, at, code]: how and where the run ended
    old,                  \* vcpkg_artifacts_path when the run started
    old_tarball,          \* tarball when the run started
    maybe_tarball,        \* Optional<Path>: "unset" | "nullopt" | "path"
    bundle,               \* the archive's vcpkg-artifacts subtree
    steps,                \* statements this run has executed, in order
    run,                  \* number of the current run
    args,                 \* View<std::string> args
    debugging,            \* Debug::g_debugging
    metrics_enabled,      \* g_metrics_enabled.load()
    loaded_file,          \* whether msg::get_loaded_file() is non-empty
    cmd,                  \* arguments of Command cmd after the executable
    maybe_telemetry_file_path, \* <<>> or <<path>>
    telemetry_file,       \* what the delegate left at the telemetry path
    tracked,              \* track_string calls made, in order
    fetched,              \* what the fetch did: [removed, invoked]
    node_result,          \* cmd_execute's result: [signed, value]
    telemetry_read,       \* whether track_telemetry read the telemetry file
    prev_installed,       \* whether the previous run installed a bundle
    other,                \* a concurrent run's own state, or NoOther
    parsed,               \* ParsedArguments: [switches, settings]
    appended_to           \* the vector the forwarder appends to

fsvars == <<vcpkg_artifacts_path, temp, tarball>>
cmdvars == <<args, debugging, metrics_enabled, loaded_file, cmd,
             maybe_telemetry_file_path>>
vars == <<mode, provision, vcpkg_artifacts_path, temp, tarball, pc, exit, old,
          old_tarball, maybe_tarball, bundle, steps, run, args, debugging,
          metrics_enabled, loaded_file, cmd, maybe_telemetry_file_path,
          telemetry_file, tracked, fetched, node_result, telemetry_read,
          prev_installed, other, parsed, appended_to>>
fwdvars == <<parsed, appended_to>>
recvars == <<fetched, node_result, telemetry_read, prev_installed, other>>

\* ------------------------------------------------------------- directories
NoDir == [exists |-> FALSE, files |-> {}]
MkDir(fs) == [exists |-> TRUE, files |-> fs]

HasFile(d, name) == d.exists /\ \E f \in d.files : f[1] = name
FileContent(d, name) == (CHOOSE f \in d.files : f[1] = name)[2]
WithoutFile(d, name) == [d EXCEPT !.files = {f \in d.files : f[1] # name}]
WithFile(d, name, c) ==
    [exists |-> TRUE, files |-> {f \in d.files : f[1] # name} \cup {<<name, c>>}]

\* The installations a run can find: no directory, or a directory holding any
\* combination of entry point, payload, development sentinel and marker.
OldInstalls ==
    {NoDir} \cup
    { MkDir(m \cup l \cup s \cup v) :
        m \in {{}, {<<MainJs, "old">>}},
        l \in {{<<LibFile, "old">>}},
        s \in {{}, {<<DevelopmentTxt, "dev">>}},
        v \in {{}, {<<VersionTxt, OtherVersion>>}, {<<VersionTxt, BaseVersion>>},
               {<<VersionTxt, Unreadable>>}} }

\* What the archive's vcpkg-artifacts subtree can hold: a working tool chain,
\* or one that lacks its entry point.
Bundles ==
    { MkDir({<<MainJs, "new">>, <<LibFile, "new">>}),
      MkDir({<<LibFile, "new">>}) }

NoTemp == [exists |-> FALSE, sub |-> NoDir]

\* What a failed recursive removal can leave of directory d: the directory
\* still exists and holds any subset of its files.
PartialRemovals(d) == { MkDir(fs) : fs \in SUBSET d.files }

\* ------------------------------------------------------------ version gate
\* fs.check_update_required(version_path, expected): whether the marker file
\* fails to certify the expected version.
check_update_required(dir, expected) ==
    \/ ~HasFile(dir, VersionTxt)
    \/ FileContent(dir, VersionTxt) = Unreadable
    \/ FileContent(dir, VersionTxt) # expected

\* Mutant: the pinned comparison is inverted.
out_of_date_Inverted ==
    IF mode = "pinned"
      THEN ~check_update_required(vcpkg_artifacts_path, BaseVersion)
      ELSE ~HasFile(vcpkg_artifacts_path, DevelopmentTxt)

\* Mutant: the sentinel check is compiled in both modes.
out_of_date_WrongBranch == ~HasFile(vcpkg_artifacts_path, DevelopmentTxt)

\* Mutant: latest mode downloads every time.
out_of_date_NoSentinel ==
    IF mode = "pinned"
      THEN check_update_required(vcpkg_artifacts_path, BaseVersion)
      ELSE TRUE

\* bool out_of_date, as computed under either setting of
\* VCPKG_STANDALONE_BUNDLE_SHA.
out_of_date ==
    IF mode = "pinned"
      THEN check_update_required(vcpkg_artifacts_path, BaseVersion)
      ELSE ~HasFile(vcpkg_artifacts_path, DevelopmentTxt)

\* ---------------------------------------------------------- bundle fetcher
\* download_vcpkg_standalone_bundle.  tb is the state of the tarball path on
\* entry, rmOk whether fs.remove succeeds, dlOk whether
\* download_file_asset_cached succeeds.  Returns whether an archive path is
\* returned, the tarball path's state on exit, whether the downloader ran,
\* how the removal of line 137 went ("skipped" where it is not compiled), and
\* the error the function itself reports.
NoFetch == [removed |-> "skipped", invoked |-> FALSE, error |-> "none"]

\* Mutant: the error code of fs.remove is not looked at.
download_vcpkg_standalone_bundle_IgnoreRemoveError(m, tb, rmOk, dlOk) ==
    IF m = "pinned"
      THEN IF dlOk
             THEN [archive |-> TRUE, tarball |-> "fresh", invoked |-> TRUE,
                   removed |-> "skipped", error |-> "none"]
             ELSE [archive |-> FALSE, tarball |-> tb, invoked |-> TRUE,
                   removed |-> "skipped", error |-> "none"]
      ELSE IF dlOk
             THEN [archive |-> TRUE, tarball |-> IF rmOk THEN "fresh" ELSE tb,
                   invoked |-> TRUE, error |-> "none",
                   removed |-> IF rmOk THEN "ok" ELSE "failed"]
             ELSE [archive |-> FALSE, tarball |-> IF rmOk THEN "none" ELSE tb,
                   invoked |-> TRUE, error |-> "none",
                   removed |-> IF rmOk THEN "ok" ELSE "failed"]

download_vcpkg_standalone_bundle(m, tb, rmOk, dlOk) ==
    IF m = "pinned"
      THEN IF dlOk
             THEN [archive |-> TRUE, tarball |-> "fresh", invoked |-> TRUE,
                   removed |-> "skipped", error |-> "none"]
             ELSE [archive |-> FALSE, tarball |-> tb, invoked |-> TRUE,
                   removed |-> "skipped", error |-> "none"]
      ELSE IF ~rmOk
             THEN [archive |-> FALSE, tarball |-> tb, invoked |-> FALSE,
                   removed |-> "failed", error |-> "remove"]
             ELSE IF dlOk
                    THEN [archive |-> TRUE, tarball |-> "fresh",
                          invoked |-> TRUE, removed |-> "ok",
                          error |-> "none"]
                    ELSE [archive |-> FALSE, tarball |-> "none",
                          invoked |-> TRUE, removed |-> "ok",
                          error |-> "none"]

\* ------------------------------------------------------- argument forwarder
\* An argument is the sequence of the pieces it is concatenated from: a plain
\* word has one, "--<name>" has two, a path has one per component.
Word(s) == <<s>>
Flag(name) == <<"--", name>>

\* Lines 78-83: the three groups of mutually exclusive switches.
ArtifactOperatingSystemsSwitchNamesStorage ==
    <<"windows", "osx", "linux", "freebsd">>
ArtifactHostPlatformSwitchNamesStorage == <<"x86", "x64", "arm", "arm64">>
ArtifactTargetPlatformSwitchNamesStorage ==
    <<"target-x86", "target-x64", "target-arm", "target-arm64">>

\* Every switch name of the model in the order of std::less on strings, which
\* is the iteration order of the std::set parsed.switches; "force" stands for
\* a switch of no group.
SwitchOrder ==
    <<"arm", "arm64", "force", "freebsd", "linux", "osx", "target-arm",
      "target-arm64", "target-x64", "target-x86", "windows", "x64", "x86">>
AllSwitches == {SwitchOrder[i] : i \in 1..Len(SwitchOrder)}

\* Lines 85-103: the loop of more_than_one_mapped from candidate i on.
RECURSIVE MoreThanOneFrom(_, _, _, _)
MoreThanOneFrom(candidates, switches, i, seen) ==
    IF i > Len(candidates) THEN FALSE
    ELSE IF candidates[i] \in switches
           THEN IF seen THEN TRUE
                        ELSE MoreThanOneFrom(candidates, switches, i + 1, TRUE)
           ELSE MoreThanOneFrom(candidates, switches, i + 1, seen)

\* Mutant: the result is "seen": one mapped candidate is enough.
more_than_one_mapped_Seen(candidates, switches) ==
    \E i \in 1..Len(candidates) : candidates[i] \in switches

more_than_one_mapped(candidates, switches) ==
    MoreThanOneFrom(candidates, switches, 1, FALSE)

\* Lines 293-296: "--<switch>" for every switch, in set order.
RECURSIVE SwitchArgsFrom(_, _)
SwitchArgsFrom(switches, i) ==
    IF i > Len(SwitchOrder) THEN <<>>
    ELSE (IF SwitchOrder[i] \in switches THEN <<Flag(SwitchOrder[i])>>
                                          ELSE <<>>)
           \o SwitchArgsFrom(switches, i + 1)

\* parsed.settings is kept as the sequence of its entries in the order they
\* were inserted.  IterationOrder is the order in which the loop of line 313
\* meets them: the container preserves insertion order.
IterationOrder(settings) == settings

\* Mutant: the value is pushed before the name.
RECURSIVE SettingArgsFrom_ValueFirst(_, _)
SettingArgsFrom_ValueFirst(settings, i) ==
    IF i > Len(settings) THEN <<>>
    ELSE <<Word(settings[i][2]), Flag(settings[i][1])>>
           \o SettingArgsFrom_ValueFirst(settings, i + 1)

\* Lines 313-317: "--<name>", <value> for every setting, in container order.
RECURSIVE SettingArgsFrom(_, _)
SettingArgsFrom(settings, i) ==
    IF i > Len(settings) THEN <<>>
    ELSE <<Flag(settings[i][1]), Word(settings[i][2])>>
           \o SettingArgsFrom(settings, i + 1)

\* Lines 298-311: the first group, in the order checked, found with more than
\* one switch set; "none" when every check passes.
ForwardError(switches) ==
    IF more_than_one_mapped(ArtifactOperatingSystemsSwitchNamesStorage, switches)
      THEN "ArtifactsSwitchOnlyOneOperatingSystem"
    ELSE IF more_than_one_mapped(ArtifactHostPlatformSwitchNamesStorage, switches)
      THEN "ArtifactsSwitchOnlyOneHostPlatform"
    ELSE IF more_than_one_mapped(ArtifactTargetPlatformSwitchNamesStorage, switches)
      THEN "ArtifactsSwitchOnlyOneTargetPlatform"
    ELSE "none"

\* forward_common_artifacts_arguments: the vector on return or at the fatal
\* exit, and the error it exits with.
forward_common_artifacts_arguments(appended, p) ==
    LET withSwitches == appended \o SwitchArgsFrom(p.switches, 1)
        error == ForwardError(p.switches)
    IN  IF error # "none"
          THEN [appended_to |-> withSwitches, error |-> error]
          ELSE [appended_to |->
                  withSwitches \o SettingArgsFrom(IterationOrder(p.settings), 1),
                error |-> "none"]

\* The settings a caller can pass.
SettingsChoices ==
    {<<>>, <<<<"version", "1">>>>,
     <<<<"version", "1">>, <<"msbuild-props", "out">>>>}

\* ------------------------------------------------------ invocation builder
UUIDs == {"uuid-a", "uuid-b"}
UserArgs == {Word("activate"), Flag("debug")}

RECURSIVE SeqsUpTo(_, _)
SeqsUpTo(S, n) ==
    IF n = 0 THEN {<<>>}
    ELSE LET shorter == SeqsUpTo(S, n - 1)
         IN  shorter \cup {Append(q, x) : q \in {r \in shorter : Len(r) = n - 1},
                                           x \in S}

TempDirectory == <<"temp">>
MainPath == <<"vcpkg-artifacts", MainJs>>
TelemetryPath(u) == TempDirectory \o <<u, "_artifacts_telemetry.txt">>
PreviousEnvironmentPath(u) == TempDirectory \o <<u, "_previous_environment.txt">>
MessagesPath == TempDirectory \o <<"messages.json">>

\* Mutant: --debug is passed unconditionally.
DebugArgs_Always(dbg) == <<Flag("debug")>>

\* Lines 235-238.
DebugArgs(dbg) == IF dbg THEN <<Flag("debug")>> ELSE <<>>
\* Lines 240-246.
TelemetryArgs(metrics, u) ==
    IF metrics THEN <<Flag("z-telemetry-file"), TelemetryPath(u)>> ELSE <<>>
\* Lines 248-256.
FixedArgs(u) ==
    << Flag("vcpkg-root"), <<"root">>,
       Flag("z-vcpkg-command"), <<"exe">>,
       Flag("z-vcpkg-artifacts-root"), <<"artifacts">>,
       Flag("z-vcpkg-downloads"), <<"downloads">>,
       Flag("z-vcpkg-registries-cache"), <<"registries">>,
       Flag("z-next-previous-environment"), PreviousEnvironmentPath(u),
       Flag("z-global-config"), <<"global-config">> >>
\* Lines 258-264.
LanguageArgs(loaded) ==
    IF loaded THEN <<Flag("language"), MessagesPath>> ELSE <<>>

\* Lines 232-264: the arguments given to Command cmd, in order.
BuildCommand(a, dbg, metrics, loaded, ut, up) ==
    <<MainPath>> \o a \o DebugArgs(dbg) \o TelemetryArgs(metrics, ut)
                \o FixedArgs(up) \o LanguageArgs(loaded)

\* ------------------------------------------------------- telemetry harvest
\* A field of the telemetry object: absent, a string, or a value of another
\* type.
Fields == {<<"absent">>, <<"string", "foo">>, <<"number", "5">>}
NoTelemetry == [state |-> "missing", acquired |-> <<"absent">>,
                activated |-> <<"absent">>]
TelemetryFiles ==
    {NoTelemetry} \cup
    {[state |-> st, acquired |-> <<"absent">>, activated |-> <<"absent">>] :
        st \in {"unreadable", "malformed"}} \cup
    {[state |-> "object", acquired |-> a, activated |-> b] :
        a \in Fields, b \in Fields}

\* Lines 45-59 and 61-75: one track_string call for a string-valued field.
TrackField(metric, field) ==
    IF field[1] = "string" THEN <<<<metric, field[2]>>>> ELSE <<>>

\* Mutant: a field of the wrong type ends the harvest.
track_telemetry_ReturnOnWrongType(file) ==
    IF file.state # "object" THEN <<>>
    ELSE IF file.acquired[1] = "number" THEN <<>>
    ELSE TrackField("AcquiredArtifacts", file.acquired)
           \o TrackField("ActivatedArtifacts", file.activated)

\* track_telemetry: the track_string calls it makes for a telemetry file.
track_telemetry(file) ==
    IF file.state # "object" THEN <<>>
    ELSE TrackField("AcquiredArtifacts", file.acquired)
           \o TrackField("ActivatedArtifacts", file.activated)

\* Exit codes the delegate can end with where node_result is signed.
NodeResults == {-1, 0, 1, 127, 128}

\* Width of int and of an unsigned exit code.  An unsigned value is kept as
\* its two halves <<high, low>>, each below Half.
IntBits == 32
Half == 2^(IntBits \div 2)

\* Exit codes the delegate can end with where node_result is unsigned.
UnsignedNodeResults ==
    {<<0, 0>>, <<0, 127>>, <<0, 128>>, <<Half - 1, Half - 1>>}

\* What cmd_execute(...).value_or_exit can return: the value together with
\* std::is_signed_v of its type, which the build fixes.
ExecResults(signed) ==
    IF signed THEN [signed : {TRUE}, value : NodeResults]
              ELSE [signed : {FALSE}, value : UnsignedNodeResults]
\* node_result before cmd_execute has returned: only its type is known.
NoResult(signed) ==
    [signed |-> signed, value |-> IF signed THEN 0 ELSE <<0, 0>>]

\* Mutant: 128 is let through.
ClampExit_OffByOne(value) ==
    IF value < 0 \/ value > 128 THEN 1 ELSE value

\* Lines 274-283, for a signed node_result.
ClampExit(value) ==
    IF value < 0 \/ value > 127 THEN 1 ELSE value

\* Line 286: static_cast<int> of an unsigned value of the same width.
static_cast_int(value) ==
    IF value[1] >= Half \div 2 THEN (value[1] - Half) * Half + value[2]
                               ELSE value[1] * Half + value[2]

\* Lines 274-287: the value run_configure_environment_command returns.
ReturnValue(nr) ==
    IF nr.signed THEN ClampExit(nr.value) ELSE static_cast_int(nr.value)

\* Mutant: a telemetry file that cannot be read or parsed fails the run.
HarvestOutcome_FailOnBadFile(path, file, nr) ==
    [read |-> path # <<>>,
     tracked |-> IF path # <<>> THEN track_telemetry(file) ELSE <<>>,
     code |-> IF path # <<>> /\ file.state \in {"unreadable", "malformed"}
                THEN 1 ELSE ReturnValue(nr)]

\* Lines 269-287: what the run does once the delegate has exited, given the
\* optional telemetry path, the file found there and node_result.
HarvestOutcome(path, file, nr) ==
    [read |-> path # <<>>,
     tracked |-> IF path # <<>> THEN track_telemetry(file) ELSE <<>>,
     code |-> ReturnValue(nr)]

\* ------------------------------------------------------------ control flow
\* Mutant: the marker is written as soon as the rename has succeeded.
InstallOrder_MarkerEarly ==
    <<"extract", "removeOld", "rename", "writeMarker", "rmTemp", "rmArchive">>

\* Mutant: the staging directory is never removed.
InstallOrder_NoTempCleanup ==
    <<"extract", "removeOld", "rename", "rmArchive", "writeMarker">>

\* The install statements in program order (lines 202-210); the marker write
\* is compiled only in pinned mode.
InstallOrder ==
    <<"extract", "removeOld", "rename", "rmTemp", "rmArchive", "writeMarker">>

InstallSteps(m) ==
    IF m = "pinned" THEN InstallOrder
                    ELSE SelectSeq(InstallOrder, LAMBDA s : s # "writeMarker")

IndexOf(seq, x) == CHOOSE i \in 1..Len(seq) : seq[i] = x

\* The statement reached when install statement s has succeeded.
After(s) ==
    LET order == InstallSteps(mode)
        i == IndexOf(order, s)
    IN  IF i < Len(order) THEN order[i + 1] ELSE "checkMain"

Running == [kind |-> "none", at |-> "none", code |-> 0]
\* Checks::exit_fail, Checks::msg_exit_with_error and a failing
\* VCPKG_LINE_INFO call all end the process with a failure status.
Exit(kind, at) == [kind |-> kind, at |-> at, code |-> 1]

Did(s) == \E i \in 1..Len(steps) : steps[i] = s

\* Control parts of a step of the run at statement s.
Step(s) == /\ pc = s
           /\ steps' = Append(steps, s)
Goto(next) == /\ pc' = next
              /\ exit' = exit
Abort(kind) == /\ exit' = Exit(kind, pc)
               /\ pc' = "exited"

\* No concurrent run.
NoOther ==
    [pc |-> "absent", exit |-> Running, temp |-> NoTemp, steps |-> <<>>,
     maybe_tarball |-> "unset", bundle |-> NoDir, old |-> NoDir,
     old_tarball |-> "none", run |-> 0, fetched |-> NoFetch]

Init ==
    /\ mode \in Modes
    /\ provision \in BOOLEAN
    /\ vcpkg_artifacts_path \in OldInstalls
    /\ temp = NoTemp
    /\ tarball \in {"none", "stale"}
    /\ pc = "start"
    /\ exit = Running
    /\ old = vcpkg_artifacts_path
    /\ old_tarball = tarball
    /\ maybe_tarball = "unset"
    /\ bundle = NoDir
    /\ steps = <<>>
    /\ run = 1
    /\ args = <<>>
    /\ debugging = FALSE
    /\ metrics_enabled = FALSE
    /\ loaded_file = FALSE
    /\ cmd = <<>>
    /\ maybe_telemetry_file_path = <<>>
    /\ telemetry_file = NoTelemetry
    /\ tracked = <<>>
    /\ fetched = NoFetch
    /\ node_result = NoResult(TRUE)
    /\ telemetry_read = FALSE
    /\ prev_installed = FALSE
    /\ other = NoOther
    /\ parsed = [switches |-> {}, settings |-> <<>>]
    /\ appended_to = <<>>

\* Lines 180-189: the version gate of a root that may be provisioned.
VersionGate ==
    /\ Step("start")
    /\ provision
    /\ Goto(IF out_of_date THEN "download" ELSE "checkMain")
    /\ UNCHANGED <<fwdvars, recvars, mode, provision, vcpkg_artifacts_path, temp,
                   tarball, old, old_tarball, maybe_tarball, bundle, run,
                   cmdvars, telemetry_file, tracked>>

\* Mutant: a read-only root is used whether or not the installation exists.
ReadOnlyGate_Unchecked ==
    /\ Step("start")
    /\ ~provision
    /\ Goto("build")
    /\ UNCHANGED <<fwdvars, recvars, mode, provision, vcpkg_artifacts_path,
                   temp, tarball, old, old_tarball, maybe_tarball, bundle,
                   run, cmdvars, telemetry_file, tracked>>

\* Lines 218-228: a read-only root needs the installation to exist.
ReadOnlyGate ==
    /\ Step("start")
    /\ ~provision
    /\ IF vcpkg_artifacts_path.exists THEN Goto("build") ELSE Abort("fatal")
    /\ UNCHANGED <<fwdvars, recvars, mode, provision, vcpkg_artifacts_path, temp,
                   tarball, old, old_tarball, maybe_tarball, bundle, run,
                   cmdvars, telemetry_file, tracked>>

\* Mutant: the result of the fetch is used without the check for nullopt.
Download_Unchecked ==
    /\ Step("download")
    /\ \E rmOk \in BOOLEAN, dlOk \in BOOLEAN, b \in Bundles :
         LET r == download_vcpkg_standalone_bundle(mode, tarball, rmOk, dlOk)
         IN  /\ tarball' = r.tarball
             /\ fetched' = [removed |-> r.removed, invoked |-> r.invoked,
                             error |-> r.error]
             /\ maybe_tarball' = IF r.archive THEN "path" ELSE "nullopt"
             /\ bundle' = b
             /\ Goto(InstallSteps(mode)[1])
    /\ UNCHANGED <<fwdvars, node_result, telemetry_read, prev_installed,
                   other, mode, provision, vcpkg_artifacts_path, temp, old,
                   old_tarball, run, cmdvars, telemetry_file, tracked>>

\* Mutant: a fetch that returned no archive is tried again.
Download_Retry ==
    /\ Step("download")
    /\ \E rmOk \in BOOLEAN, dlOk \in BOOLEAN, b \in Bundles :
         LET r == download_vcpkg_standalone_bundle(mode, tarball, rmOk, dlOk)
         IN  /\ tarball' = r.tarball
             /\ fetched' = [removed |-> r.removed, invoked |-> r.invoked,
                             error |-> r.error]
             /\ maybe_tarball' = IF r.archive THEN "path" ELSE "nullopt"
             /\ IF r.archive
                  THEN /\ bundle' = b
                       /\ Goto(InstallSteps(mode)[1])
                  ELSE /\ bundle' = bundle
                       /\ Goto("download")
    /\ UNCHANGED <<fwdvars, node_result, telemetry_read, prev_installed,
                   other, mode, provision, vcpkg_artifacts_path, temp, old,
                   old_tarball, run, cmdvars, telemetry_file, tracked>>

\* Lines 194-200: fetch the bundle; without an archive the run ends.
Download ==
    /\ Step("download")
    /\ \E rmOk \in BOOLEAN, dlOk \in BOOLEAN, b \in Bundles :
         LET r == download_vcpkg_standalone_bundle(mode, tarball, rmOk, dlOk)
         IN  /\ tarball' = r.tarball
             /\ fetched' = [removed |-> r.removed, invoked |-> r.invoked,
                             error |-> r.error]
             /\ maybe_tarball' = IF r.archive THEN "path" ELSE "nullopt"
             /\ IF r.archive
                  THEN /\ bundle' = b
                       /\ Goto(InstallSteps(mode)[1])
                  ELSE /\ bundle' = bundle
                       /\ Abort("exit_fail")
    /\ UNCHANGED <<fwdvars, node_result, telemetry_read, prev_installed,
                   other, mode, provision, vcpkg_artifacts_path, temp, old,
                   old_tarball, run, cmdvars, telemetry_file, tracked>>

\* Lines 202-203: extract_archive_to_temp_subdirectory.  A failed extraction
\* may leave the staging directory behind, empty or partly filled.
Extract ==
    /\ Step("extract")
    /\ \/ /\ temp' = [exists |-> TRUE, sub |-> bundle]
          /\ Goto(After("extract"))
       \/ /\ temp' \in {NoTemp} \cup
                       {[exists |-> TRUE, sub |-> d] :
                           d \in {NoDir} \cup PartialRemovals(bundle)}
          /\ Abort("fatal")
    /\ UNCHANGED <<fwdvars, recvars, mode, provision, vcpkg_artifacts_path, tarball,
                   old, old_tarball, maybe_tarball, bundle, run, cmdvars,
                   telemetry_file, tracked>>

\* Line 204: fs.remove_all(vcpkg_artifacts_path).
RemoveOld ==
    /\ Step("removeOld")
    /\ \/ /\ vcpkg_artifacts_path' = NoDir
          /\ Goto(After("removeOld"))
       \/ /\ vcpkg_artifacts_path' \in
               IF vcpkg_artifacts_path.exists
                 THEN PartialRemovals(vcpkg_artifacts_path)
                 ELSE {vcpkg_artifacts_path}
          /\ Abort("fatal")
    /\ UNCHANGED <<fwdvars, recvars, mode, provision, temp, tarball, old, old_tarball,
                   maybe_tarball, bundle, run, cmdvars, telemetry_file,
                   tracked>>

\* Mutant: the whole staging directory, with the bundle's other content, is
\* renamed into place.
Rename_WholeTemp ==
    /\ Step("rename")
    /\ \/ /\ temp.sub.exists
          /\ ~vcpkg_artifacts_path.exists
          /\ vcpkg_artifacts_path' =
               MkDir({<<"vcpkg-artifacts", "new">>, <<"scripts", "new">>})
          /\ temp' = NoTemp
          /\ Goto(After("rename"))
       \/ /\ UNCHANGED <<vcpkg_artifacts_path, temp>>
          /\ Abort("fatal")
    /\ UNCHANGED <<fwdvars, recvars, mode, provision, tarball, old, old_tarball,
                   maybe_tarball, bundle, run, cmdvars, telemetry_file,
                   tracked>>

\* Line 205: fs.rename_with_retry(temp / "vcpkg-artifacts", vcpkg_artifacts_path).
\* The rename needs its source to exist and its target not to.
Rename ==
    /\ Step("rename")
    /\ \/ /\ temp.sub.exists
          /\ ~vcpkg_artifacts_path.exists
          /\ vcpkg_artifacts_path' = temp.sub
          /\ temp' = [temp EXCEPT !.sub = NoDir]
          /\ Goto(After("rename"))
       \/ /\ UNCHANGED <<vcpkg_artifacts_path, temp>>
          /\ Abort("fatal")
    /\ UNCHANGED <<fwdvars, recvars, mode, provision, tarball, old, old_tarball,
                   maybe_tarball, bundle, run, cmdvars, telemetry_file,
                   tracked>>

\* Mutant: the second remove_all is given the installation path again.
RemoveTemp_WrongPath ==
    /\ Step("rmTemp")
    /\ \/ /\ vcpkg_artifacts_path' = NoDir
          /\ Goto(After("rmTemp"))
       \/ /\ vcpkg_artifacts_path' = vcpkg_artifacts_path
          /\ Abort("fatal")
    /\ UNCHANGED <<fwdvars, recvars, mode, provision, temp, tarball, old,
                   old_tarball, maybe_tarball, bundle, run, cmdvars,
                   telemetry_file, tracked>>

\* Line 206: fs.remove_all(temp).
RemoveTemp ==
    /\ Step("rmTemp")
    /\ \/ /\ temp' = NoTemp
          /\ Goto(After("rmTemp"))
       \/ /\ temp' = temp
          /\ Abort("fatal")
    /\ UNCHANGED <<fwdvars, recvars, mode, provision, vcpkg_artifacts_path, tarball,
                   old, old_tarball, maybe_tarball, bundle, run, cmdvars,
                   telemetry_file, tracked>>

\* Line 207: fs.remove(*tarball).
RemoveTarball ==
    /\ Step("rmArchive")
    /\ \/ /\ tarball' = "none"
          /\ Goto(After("rmArchive"))
       \/ /\ tarball' = tarball
          /\ Abort("fatal")
    /\ UNCHANGED <<fwdvars, recvars, mode, provision, vcpkg_artifacts_path, temp, old,
                   old_tarball, maybe_tarball, bundle, run, cmdvars,
                   telemetry_file, tracked>>

\* Mutant: the marker is written to another file of the installation.
WriteMarker_WrongFile ==
    /\ Step("writeMarker")
    /\ \/ /\ vcpkg_artifacts_path' =
               WithFile(vcpkg_artifacts_path, "version", BaseVersion)
          /\ Goto(After("writeMarker"))
       \/ /\ vcpkg_artifacts_path' = vcpkg_artifacts_path
          /\ Abort("fatal")
    /\ UNCHANGED <<fwdvars, recvars, mode, provision, temp, tarball, old,
                   old_tarball, maybe_tarball, bundle, run, cmdvars,
                   telemetry_file, tracked>>

\* Lines 208-210: fs.write_contents(version_path, VCPKG_BASE_VERSION_AS_STRING).
\* A failed write leaves no marker, the marker it found, or a truncated one.
WriteMarker ==
    /\ Step("writeMarker")
    /\ \/ /\ vcpkg_artifacts_path' =
               WithFile(vcpkg_artifacts_path, VersionTxt, BaseVersion)
          /\ Goto(After("writeMarker"))
       \/ /\ vcpkg_artifacts_path' \in
               { vcpkg_artifacts_path,
                 WithoutFile(vcpkg_artifacts_path, VersionTxt),
                 WithFile(vcpkg_artifacts_path, VersionTxt, "<truncated>") }
          /\ Abort("fatal")
    /\ UNCHANGED <<fwdvars, recvars, mode, provision, temp, tarball, old, old_tarball,
                   maybe_tarball, bundle, run, cmdvars, telemetry_file,
                   tracked>>

\* Mutant: the check after provisioning tests the directory only.
CheckMain_DirectoryOnly ==
    /\ Step("checkMain")
    /\ IF vcpkg_artifacts_path.exists THEN Goto("build")
                                      ELSE Abort("fatal")
    /\ UNCHANGED <<fwdvars, recvars, mode, provision, vcpkg_artifacts_path,
                   temp, tarball, old, old_tarball, maybe_tarball, bundle,
                   run, cmdvars, telemetry_file, tracked>>

\* Lines 213-216: the entry point must exist after provisioning.
CheckMain ==
    /\ Step("checkMain")
    /\ IF HasFile(vcpkg_artifacts_path, MainJs) THEN Goto("build")
                                                ELSE Abort("fatal")
    /\ UNCHANGED <<fwdvars, recvars, mode, provision, vcpkg_artifacts_path, temp,
                   tarball, old, old_tarball, maybe_tarball, bundle, run,
                   cmdvars, telemetry_file, tracked>>

\* The argument lists a caller passes: the vector the forwarder filled when
\* the caller forwarded its parsed arguments, any short list otherwise.
ArgsChoices ==
    IF Did("forward") THEN {appended_to} ELSE SeqsUpTo(UserArgs, MaxArgs)

\* Lines 230-264: build the delegate's command line.  Creating the temporary
\* directory or writing messages.json may fail, which ends the run.
Build ==
    /\ Step("build")
    /\ \E a \in ArgsChoices, dbg \in BOOLEAN, me \in BOOLEAN,
          lf \in BOOLEAN, ut \in UUIDs, up \in UUIDs, ok \in BOOLEAN :
         /\ args' = a
         /\ debugging' = dbg
         /\ metrics_enabled' = me
         /\ loaded_file' = lf
         /\ IF ok
              THEN /\ cmd' = BuildCommand(a, dbg, me, lf, ut, up)
                   /\ maybe_telemetry_file_path' =
                        IF me THEN <<TelemetryPath(ut)>> ELSE <<>>
                   /\ Goto("exec")
              ELSE /\ cmd' = <<>>
                   /\ maybe_telemetry_file_path' = <<>>
                   /\ Abort("fatal")
    /\ UNCHANGED <<fwdvars, recvars, mode, provision, fsvars, old, old_tarball,
                   maybe_tarball, bundle, run, telemetry_file, tracked>>

\* Lines 266-268: cmd_execute(cmd, settings) launches the delegate;
\* value_or_exit ends the run if it could not be launched.  cmd is consumed
\* by the launch.
Execute ==
    /\ Step("exec")
    /\ \/ Goto("wait")
       \/ Abort("fatal")
    /\ cmd' = <<>>
    /\ args' = <<>>
    /\ UNCHANGED <<fwdvars, recvars, mode, provision, fsvars, old,
                   old_tarball, maybe_tarball, bundle, run, debugging,
                   metrics_enabled, loaded_file, maybe_telemetry_file_path,
                   telemetry_file, tracked>>

\* Lines 266-268: cmd_execute returns when the delegate has exited.
Wait ==
    /\ Step("wait")
    /\ \E r \in ExecResults(node_result.signed) : node_result' = r
    /\ Goto("harvest")
    /\ UNCHANGED <<fwdvars, fetched, telemetry_read, prev_installed, other,
                   mode, provision, fsvars, old, old_tarball, maybe_tarball,
                   bundle, run, cmdvars, telemetry_file, tracked>>

\* Lines 269-287: harvest telemetry if a path was passed, then return the
\* exit code.  telemetry_file is what the delegate left at the path it was
\* given; without a path there is no file.
Harvest ==
    /\ Step("harvest")
    /\ \E f \in TelemetryFiles :
         /\ f.state = "missing" \/ maybe_telemetry_file_path # <<>>
         /\ telemetry_file' = f
         /\ LET o == HarvestOutcome(maybe_telemetry_file_path, f, node_result)
            IN  /\ telemetry_read' = o.read
                /\ tracked' = tracked \o o.tracked
                /\ exit' = [kind |-> "returned", at |-> "return",
                            code |-> o.code]
    /\ pc' = "exited"
    /\ UNCHANGED <<fwdvars, fetched, node_result, prev_installed, other,
                   mode, provision, fsvars, old, old_tarball, maybe_tarball,
                   bundle, run, cmdvars>>

\* The run fetched a bundle and every install statement succeeded.
InstalledBundle ==
    /\ Did("download")
    /\ \A i \in 1..Len(InstallSteps(mode)) :
         Did(InstallSteps(mode)[i]) /\ exit.at # InstallSteps(mode)[i]

\* The command is run again on the file system the last run left.
NewRun ==
    /\ pc = "exited"
    /\ run < MaxRuns
    /\ run' = run + 1
    /\ pc' = "start"
    /\ exit' = Running
    /\ old' = vcpkg_artifacts_path
    /\ old_tarball' = tarball
    /\ maybe_tarball' = "unset"
    /\ bundle' = NoDir
    /\ steps' = <<>>
    /\ args' = <<>>
    /\ debugging' = FALSE
    /\ metrics_enabled' = FALSE
    /\ loaded_file' = FALSE
    /\ cmd' = <<>>
    /\ maybe_telemetry_file_path' = <<>>
    /\ telemetry_file' = NoTelemetry
    /\ tracked' = <<>>
    /\ fetched' = NoFetch
    /\ node_result' = NoResult(node_result.signed)
    /\ telemetry_read' = FALSE
    /\ prev_installed' = InstalledBundle
    /\ UNCHANGED <<fwdvars, other, mode, provision, fsvars>>

Next ==
    \/ VersionGate
    \/ ReadOnlyGate
    \/ Download
    \/ Extract
    \/ RemoveOld
    \/ Rename
    \/ RemoveTemp
    \/ RemoveTarball
    \/ WriteMarker
    \/ CheckMain
    \/ Build
    \/ Execute
    \/ Wait
    \/ Harvest
    \/ NewRun

Spec == Init /\ [][Next]_vars

\* ------------------------------------------- a caller that forwards switches
\* A command of the artifacts family: it forwards its parsed switches and
\* settings, then runs the delegate on a root it may not provision.
InitFwd ==
    /\ mode = "pinned"
    /\ provision = FALSE
    /\ vcpkg_artifacts_path \in
         {NoDir, MkDir({<<MainJs, "old">>, <<LibFile, "old">>})}
    /\ temp = NoTemp
    /\ tarball = "none"
    /\ pc = "forward"
    /\ exit = Running
    /\ old = vcpkg_artifacts_path
    /\ old_tarball = tarball
    /\ maybe_tarball = "unset"
    /\ bundle = NoDir
    /\ steps = <<>>
    /\ run = 1
    /\ args = <<>>
    /\ debugging = FALSE
    /\ metrics_enabled = FALSE
    /\ loaded_file = FALSE
    /\ cmd = <<>>
    /\ maybe_telemetry_file_path = <<>>
    /\ telemetry_file = NoTelemetry
    /\ tracked = <<>>
    /\ fetched = NoFetch
    /\ node_result = NoResult(TRUE)
    /\ telemetry_read = FALSE
    /\ prev_installed = FALSE
    /\ other = NoOther
    /\ parsed \in [switches : SUBSET AllSwitches, settings : SettingsChoices]
    /\ appended_to = <<Word("activate")>>

\* Lines 290-318, called before run_configure_environment_command.
Forward ==
    /\ Step("forward")
    /\ LET r == forward_common_artifacts_arguments(appended_to, parsed)
       IN  /\ appended_to' = r.appended_to
           /\ IF r.error = "none" THEN Goto("start") ELSE Abort(r.error)
    /\ UNCHANGED <<parsed, recvars, mode, provision, fsvars, old, old_tarball,
                   maybe_tarball, bundle, run, cmdvars, telemetry_file,
                   tracked>>

NextFwd ==
    \/ Forward
    \/ ReadOnlyGate
    \/ Build
    \/ Execute

SpecFwd == InitFwd /\ [][NextFwd]_vars

\* ------------------------------------------- either type of the exit code
\* The run on an installed read-only root, in a build where node_result is
\* signed and in one where it is unsigned.
InitExit ==
    /\ mode = "pinned"
    /\ provision = FALSE
    /\ vcpkg_artifacts_path = MkDir({<<MainJs, "old">>, <<LibFile, "old">>})
    /\ temp = NoTemp
    /\ tarball = "none"
    /\ pc = "start"
    /\ exit = Running
    /\ old = vcpkg_artifacts_path
    /\ old_tarball = tarball
    /\ maybe_tarball = "unset"
    /\ bundle = NoDir
    /\ steps = <<>>
    /\ run = 1
    /\ args = <<>>
    /\ debugging = FALSE
    /\ metrics_enabled = FALSE
    /\ loaded_file = FALSE
    /\ cmd = <<>>
    /\ maybe_telemetry_file_path = <<>>
    /\ telemetry_file = NoTelemetry
    /\ tracked = <<>>
    /\ fetched = NoFetch
    /\ \E signed \in BOOLEAN : node_result = NoResult(signed)
    /\ telemetry_read = FALSE
    /\ prev_installed = FALSE
    /\ other = NoOther
    /\ parsed = [switches |-> {}, settings |-> <<>>]
    /\ appended_to = <<>>

NextExit ==
    \/ ReadOnlyGate
    \/ Build
    \/ Execute
    \/ Wait
    \/ Harvest

SpecExit == InitExit /\ [][NextExit]_vars

\* ------------------------------------------------ two runs on the same root
\* What a run of lines 180-216 holds of its own: its position, its locals
\* and its staging directory.
Context ==
    [pc |-> pc, exit |-> exit, temp |-> temp, steps |-> steps,
     maybe_tarball |-> maybe_tarball, bundle |-> bundle, old |-> old,
     old_tarball |-> old_tarball, run |-> run, fetched |-> fetched]

\* Two processes run the command on the same root, both allowed to provision
\* it.  Each has its own staging directory; the live installation and the
\* tarball path are shared, and nothing in lines 180-216 takes a lock.
InitRace ==
    /\ mode = "pinned"
    /\ provision = TRUE
    /\ vcpkg_artifacts_path \in
         {NoDir, MkDir({<<MainJs, "old">>, <<LibFile, "old">>,
                        <<VersionTxt, OtherVersion>>})}
    /\ temp = NoTemp
    /\ tarball = "none"
    /\ pc = "start"
    /\ exit = Running
    /\ old = vcpkg_artifacts_path
    /\ old_tarball = tarball
    /\ maybe_tarball = "unset"
    /\ bundle = NoDir
    /\ steps = <<>>
    /\ run = 1
    /\ args = <<>>
    /\ debugging = FALSE
    /\ metrics_enabled = FALSE
    /\ loaded_file = FALSE
    /\ cmd = <<>>
    /\ maybe_telemetry_file_path = <<>>
    /\ telemetry_file = NoTelemetry
    /\ tracked = <<>>
    /\ fetched = NoFetch
    /\ node_result = NoResult(TRUE)
    /\ telemetry_read = FALSE
    /\ prev_installed = FALSE
    /\ other = [NoOther EXCEPT !.pc = "start", !.run = 2,
                                !.old = vcpkg_artifacts_path]
    /\ parsed = [switches |-> {}, settings |-> <<>>]
    /\ appended_to = <<>>

\* The scheduler lets the other process take its next steps.
Switch ==
    /\ other.pc # "absent"
    /\ other' = Context
    /\ pc' = other.pc
    /\ exit' = other.exit
    /\ temp' = other.temp
    /\ steps' = other.steps
    /\ maybe_tarball' = other.maybe_tarball
    /\ bundle' = other.bundle
    /\ old' = other.old
    /\ old_tarball' = other.old_tarball
    /\ run' = other.run
    /\ fetched' = other.fetched
    /\ UNCHANGED <<fwdvars, node_result, telemetry_read, prev_installed,
                   mode, provision, vcpkg_artifacts_path, tarball, cmdvars,
                   telemetry_file, tracked>>

NextRace ==
    \/ VersionGate
    \/ Download
    \/ Extract
    \/ RemoveOld
    \/ Rename
    \/ RemoveTemp
    \/ RemoveTarball
    \/ WriteMarker
    \/ CheckMain
    \/ Switch

SpecRace == InitRace /\ [][NextRace]_vars

\* ================================================================== claims
\* Vocabulary shared by the claims about provisioning.
StaleRun == provision /\ Did("download")
Failed(s) == exit.at = s
Succeeded(s) == Did(s) /\ ~Failed(s)
InstallStepSet == {InstallOrder[i] : i \in 1..Len(InstallOrder)}
Payload(d) == {f \in d.files : f[1] # VersionTxt}
CompleteOld(d) == d = old
CompleteNew(d) == d.exists /\ bundle.exists /\ Payload(d) = bundle.files
MarkerCurrent(d) ==
    HasFile(d, VersionTxt) /\ FileContent(d, VersionTxt) = BaseVersion

\* C1 as stated: in every state of a provisioning run on a stale existing
\* installation the live directory is the complete old installation or the
\* complete new one, never missing and never partial.
C1_AlwaysOldOrNew ==
    (StaleRun /\ old.exists) =>
        CompleteOld(vcpkg_artifacts_path) \/ CompleteNew(vcpkg_artifacts_path)

\* C1 amended: the live directory is the complete old installation in every
\* state in which the removal of the old directory has not started, and the
\* complete new installation in every state after the rename has succeeded;
\* from the start of the removal until the rename succeeds (a run aborted at
\* the removal or at the rename included) it is missing or holds a part of
\* the old installation.
C1_OldUntilRemovalNewAfterRename ==
    StaleRun =>
        /\ ~Did("removeOld") => CompleteOld(vcpkg_artifacts_path)
        /\ Succeeded("rename") => CompleteNew(vcpkg_artifacts_path)
        /\ (Did("removeOld") /\ ~Succeeded("rename")) =>
              \/ vcpkg_artifacts_path = NoDir
              \/ /\ Failed("removeOld")
                 /\ vcpkg_artifacts_path \in PartialRemovals(old)

\* C1 witness: a run aborted at the rename, the old installation removed and
\* no new one in place.
C1_Witness ==
    /\ StaleRun /\ old.exists /\ HasFile(old, MainJs)
    /\ Failed("rename")
    /\ vcpkg_artifacts_path = NoDir

\* C2: in pinned mode, in every state of a stale run in which the marker
\* write has not succeeded (between steps, or aborted at any step), the marker
\* does not hold the running build version and the version gate evaluated on
\* that state reports stale; the marker holds the running version only once
\* extract, remove-old, rename, temp cleanup and archive removal have all
\* succeeded.
C2_MarkerOnlyAfterInstall ==
    (mode = "pinned" /\ StaleRun) =>
        /\ ~Succeeded("writeMarker") =>
              /\ ~MarkerCurrent(vcpkg_artifacts_path)
              /\ out_of_date
        /\ MarkerCurrent(vcpkg_artifacts_path) =>
              \A s \in InstallStepSet : Succeeded(s)

\* C2 witness: a pinned run aborted at the removal of the archive, after the
\* new installation was renamed into place.
C2_Witness ==
    /\ mode = "pinned" /\ StaleRun
    /\ pc = "exited" /\ Failed("rmArchive")
    /\ CompleteNew(vcpkg_artifacts_path)
    /\ ~MarkerCurrent(vcpkg_artifacts_path)

\* C3 as stated: when an install attempt has failed at any of its steps and
\* the run has terminated, neither the staging directory nor the downloaded
\* archive remains on disk.
C3_NoStagingAfterFailure ==
    (pc = "exited" /\ \E s \in InstallStepSet : Failed(s)) =>
        ~temp.exists /\ tarball = "none"

\* C4: once fetch, extraction and every following install step have
\* succeeded, in every later state of the run the staging directory and the
\* archive do not exist and the live directory holds the archive's
\* vcpkg-artifacts subtree.
C4_CleanAfterSuccess ==
    (StaleRun /\ \A i \in 1..Len(InstallSteps(mode)) :
                    Succeeded(InstallSteps(mode)[i])) =>
        /\ ~temp.exists
        /\ tarball = "none"
        /\ CompleteNew(vcpkg_artifacts_path)

\* C4 witness: the delegate is about to be launched after a full install over
\* an existing installation.
C4_Witness ==
    /\ StaleRun /\ old.exists
    /\ \A i \in 1..Len(InstallSteps(mode)) : Succeeded(InstallSteps(mode)[i])
    /\ pc = "exec"

\* Steps that fetch, or that change the installation or the downloads.
ProvisioningSteps == {"download"} \cup InstallStepSet
NoProvisioning ==
    /\ \A s \in ProvisioningSteps : ~Did(s)
    /\ vcpkg_artifacts_path = old
    /\ tarball = old_tarball
\* The statement the run went to from the version gate.
AfterGate == IF Len(steps) = 1 THEN pc ELSE steps[2]
MarkerCase(d) ==
    IF ~HasFile(d, VersionTxt) THEN "absent"
    ELSE IF FileContent(d, VersionTxt) = Unreadable THEN "unreadable"
    ELSE IF FileContent(d, VersionTxt) # BaseVersion THEN "mismatched"
    ELSE "current"

\* C5: in pinned mode with provisioning enabled, when the marker equals the
\* running build version the gate reports not-stale, and the run downloads
\* nothing, executes no install step and leaves the installation directory
\* and the tarball as it found them.
C5_CurrentMarkerSkipsInstall ==
    (mode = "pinned" /\ provision /\ MarkerCase(old) = "current"
       /\ Did("start")) =>
        /\ AfterGate = "checkMain"
        /\ NoProvisioning

\* C5 witness: a pinned run with a current marker about to launch the delegate.
C5_Witness ==
    /\ mode = "pinned" /\ provision /\ MarkerCase(old) = "current"
    /\ pc = "exec"

C7_SentinelNeverOverwritten ==
    (mode = "latest" /\ HasFile(old, DevelopmentTxt) /\ Did("start")) =>
        NoProvisioning

\* C7 witness: the second consecutive run on a development copy reaches the
\* launch of the delegate.
C7_Witness ==
    /\ mode = "latest" /\ provision /\ HasFile(old, DevelopmentTxt)
    /\ run = 2 /\ pc = "exec"

\* C8: when download_vcpkg_standalone_bundle returns no archive the run has
\* ended with a failure exit right after the fetch: nothing was extracted,
\* removed, renamed or written, the delegate was not launched, and the live
\* installation directory is as it was before the run.
C8_NoArchiveEndsRun ==
    maybe_tarball = "nullopt" =>
        /\ pc = "exited"
        /\ exit.kind = "exit_fail" /\ Failed("download") /\ exit.code # 0
        /\ steps = <<"start", "download">>
        /\ vcpkg_artifacts_path = old

\* C8 witness: in latest mode the stale archive could not be deleted, over an
\* existing installation.
C8_Witness ==
    /\ maybe_tarball = "nullopt"
    /\ mode = "latest" /\ tarball = "stale"
    /\ old.exists /\ HasFile(old, MainJs)

\* The three groups of platform switches, as sets.
OperatingSystemSwitches == {"windows", "osx", "linux", "freebsd"}
HostPlatformSwitches == {"x86", "x64", "arm", "arm64"}
TargetPlatformSwitches ==
    {"target-x86", "target-x64", "target-arm", "target-arm64"}
Conflict(group) == Cardinality(parsed.switches \cap group) >= 2

\* C9: forward_common_artifacts_arguments ends with a fatal error if and only
\* if some group has two or more of its switches set; the error names a group
\* that has; and after the error the run is over with nothing but the
\* forwarding done, so the delegate is never launched.
C9_ExclusiveSwitches ==
    Did("forward") =>
        /\ Failed("forward") <=>
              \/ Conflict(OperatingSystemSwitches)
              \/ Conflict(HostPlatformSwitches)
              \/ Conflict(TargetPlatformSwitches)
        /\ Failed("forward") =>
              /\ pc = "exited" /\ steps = <<"forward">> /\ exit.code # 0
              /\ \/ /\ exit.kind = "ArtifactsSwitchOnlyOneOperatingSystem"
                    /\ Conflict(OperatingSystemSwitches)
                 \/ /\ exit.kind = "ArtifactsSwitchOnlyOneHostPlatform"
                    /\ Conflict(HostPlatformSwitches)
                 \/ /\ exit.kind = "ArtifactsSwitchOnlyOneTargetPlatform"
                    /\ Conflict(TargetPlatformSwitches)
        /\ Did("exec") =>
              /\ ~Conflict(OperatingSystemSwitches)
              /\ ~Conflict(HostPlatformSwitches)
              /\ ~Conflict(TargetPlatformSwitches)

\* C9 witness: one operating system, one host, two targets: the error names
\* the target group.
C9_Witness ==
    /\ Failed("forward")
    /\ Cardinality(parsed.switches \cap OperatingSystemSwitches) = 1
    /\ Cardinality(parsed.switches \cap HostPlatformSwitches) = 1
    /\ parsed.switches \cap TargetPlatformSwitches = {"target-x64", "target-arm64"}
    /\ exit.kind = "ArtifactsSwitchOnlyOneTargetPlatform"

\* Reading the delegate's argument list.
Count(seq, x) == Cardinality({i \in 1..Len(seq) : seq[i] = x})
\* flag occurs exactly once in seq, immediately followed by a value from vals.
OnceWithValue(seq, flag, vals) ==
    /\ Count(seq, flag) = 1
    /\ \E i \in 1..(Len(seq) - 1) : seq[i] = flag /\ seq[i + 1] \in vals
\* What the builder put after the forwarded arguments.
Appended == SubSeq(cmd, Len(args) + 2, Len(cmd))

\* C10: in the argument list built for the delegate the entry point comes
\* first, then the forwarded arguments unchanged and in order; after them
\* --debug appears, once and first, iff debugging is on; --z-telemetry-file
\* appears, once and followed by the generated telemetry path, iff metrics
\* are enabled; each fixed flag appears once followed by its value; and
\* --language appears, once and followed by the messages file, iff message
\* data was loaded.
C10_ArgumentList ==
    pc = "exec" =>
        /\ Len(cmd) >= Len(args) + 1
        /\ cmd[1] = MainPath
        /\ SubSeq(cmd, 2, Len(args) + 1) = args
        /\ Count(Appended, Flag("debug")) = IF debugging THEN 1 ELSE 0
        /\ debugging => Appended[1] = Flag("debug")
        /\ Count(Appended, Flag("z-telemetry-file")) =
              IF metrics_enabled THEN 1 ELSE 0
        /\ metrics_enabled =>
              /\ Len(maybe_telemetry_file_path) = 1
              /\ maybe_telemetry_file_path[1] \in {TelemetryPath(u) : u \in UUIDs}
              /\ OnceWithValue(Appended, Flag("z-telemetry-file"),
                               {maybe_telemetry_file_path[1]})
        /\ ~metrics_enabled => maybe_telemetry_file_path = <<>>
        /\ OnceWithValue(Appended, Flag("vcpkg-root"), {<<"root">>})
        /\ OnceWithValue(Appended, Flag("z-vcpkg-command"), {<<"exe">>})
        /\ OnceWithValue(Appended, Flag("z-vcpkg-artifacts-root"),
                         {<<"artifacts">>})
        /\ OnceWithValue(Appended, Flag("z-vcpkg-downloads"), {<<"downloads">>})
        /\ OnceWithValue(Appended, Flag("z-vcpkg-registries-cache"),
                         {<<"registries">>})
        /\ OnceWithValue(Appended, Flag("z-next-previous-environment"),
                         {PreviousEnvironmentPath(u) : u \in UUIDs})
        /\ OnceWithValue(Appended, Flag("z-global-config"), {<<"global-config">>})
        /\ Count(Appended, Flag("language")) = IF loaded_file THEN 1 ELSE 0
        /\ loaded_file => OnceWithValue(Appended, Flag("language"), {MessagesPath})
        /\ Len(Appended) = 14 + (IF debugging THEN 1 ELSE 0)
                              + (IF metrics_enabled THEN 2 ELSE 0)
                              + (IF loaded_file THEN 2 ELSE 0)

\* C10 witness: debugging, metrics and loaded messages all on, and the user
\* forwarded "--debug" itself.
C10_Witness ==
    /\ pc = "exec"
    /\ debugging /\ metrics_enabled /\ loaded_file
    /\ args = <<Flag("debug"), Word("activate")>>

\* ------------------------------------------------------------------- C11
Harvested == Did("harvest")
CallsFor(metric) == SelectSeq(tracked, LAMBDA c : c[1] = metric)
\* The single call expected for a field of the file the harvest found.
ExpectedCalls(metric, field) ==
    IF telemetry_file.state = "object" /\ field[1] = "string"
      THEN <<<<metric, field[2]>>>>
      ELSE <<>>

\* C11: when track_telemetry has run, it has made one track_string call for
\* acquired_artifacts, carrying the field's string, iff the file was read,
\* parsed as an object and held that field with a string value, and
\* independently the same for activated_artifacts; it made no other call, so
\* there are 0, 1 or 2 calls, and the run returned instead of failing.
C11_TelemetryCalls ==
    (Harvested /\ telemetry_read) =>
        /\ CallsFor("AcquiredArtifacts") =
             ExpectedCalls("AcquiredArtifacts", telemetry_file.acquired)
        /\ CallsFor("ActivatedArtifacts") =
             ExpectedCalls("ActivatedArtifacts", telemetry_file.activated)
        /\ Len(tracked) = Len(CallsFor("AcquiredArtifacts"))
                            + Len(CallsFor("ActivatedArtifacts"))
        /\ Len(tracked) \in 0..2
        /\ exit.kind = "returned"

\* C11 witness: acquired_artifacts has the wrong type and activated_artifacts
\* is a string; the one call made is for the latter.
C11_Witness ==
    /\ Harvested /\ telemetry_read
    /\ telemetry_file.state = "object"
    /\ telemetry_file.acquired[1] = "number"
    /\ telemetry_file.activated = <<"string", "foo">>
    /\ tracked = <<<<"ActivatedArtifacts", "foo">>>>

\* ------------------------------------------------------------------- C12
\* The delegate's exit code lies in [0,127]; LowCode is then its value.
InLow7(nr) ==
    IF nr.signed THEN nr.value \in 0..127
                 ELSE nr.value[1] = 0 /\ nr.value[2] \in 0..127
LowCode(nr) == IF nr.signed THEN nr.value ELSE nr.value[2]
ExitedZero(nr) == IF nr.signed THEN nr.value = 0 ELSE nr.value = <<0, 0>>
\* i is the int with the same IntBits bits as the unsigned value u.
SameBits(i, u) ==
    /\ (i - u[2]) % Half = 0
    /\ (((i - u[2]) \div Half) - u[1]) % Half = 0

\* C12 as stated: whenever the delegate was launched and exited, the value
\* returned lies in [0,127] whatever the type of node_result: the delegate's
\* code if that is in [0,127], 1 otherwise, and 0 exactly for a delegate
\* that exited with 0.
C12_ClampedEverywhere ==
    Harvested =>
        /\ exit.code \in 0..127
        /\ InLow7(node_result) => exit.code = LowCode(node_result)
        /\ ~InLow7(node_result) => exit.code = 1
        /\ exit.code = 0 <=> ExitedZero(node_result)

\* C12 amended: whenever the delegate was launched and exited, the value
\* returned is 0 exactly for a delegate that exited with 0; where
\* node_result is signed it lies in [0,127], the delegate's code if that is
\* in [0,127] and 1 otherwise; where node_result is unsigned it is the
\* delegate's code converted to int, unclamped.
C12_ClampedWhereSigned ==
    Harvested =>
        /\ exit.kind = "returned"
        /\ exit.code = 0 <=> ExitedZero(node_result)
        /\ node_result.signed =>
             /\ exit.code \in 0..127
             /\ InLow7(node_result) => exit.code = node_result.value
             /\ ~InLow7(node_result) => exit.code = 1
        /\ ~node_result.signed => SameBits(exit.code, node_result.value)

\* C12 witness: an unsigned exit code with every bit set is returned as -1.
C12_Witness ==
    /\ Harvested
    /\ ~node_result.signed
    /\ node_result.value = <<Half - 1, Half - 1>>
    /\ exit.code = -1

\* ------------------------------------------------------------------- C13
\* C13: on a root that may not be provisioned the run never downloads,
\* extracts, removes or renames anything; if in addition the installation
\* directory does not exist, the run ends with a fatal error at the gate,
\* before a temporary file is written and before the delegate is launched.
C13_ReadOnlyRoot ==
    ~provision =>
        /\ NoProvisioning
        /\ temp = NoTemp
        /\ (Did("start") /\ ~old.exists) =>
             /\ pc = "exited"
             /\ exit = Exit("fatal", "start")
             /\ ~Did("build") /\ ~Did("exec")
             /\ cmd = <<>> /\ maybe_telemetry_file_path = <<>>

\* C13 witness: a read-only root without an installation directory has ended
\* the run at the gate.
C13_Witness ==
    /\ ~provision
    /\ ~old.exists
    /\ steps = <<"start">>
    /\ exit.kind = "fatal"

C15_LatestRemovesFirst ==
    (mode = "latest" /\ Did("download")) =>
        /\ fetched.removed \in {"ok", "failed"}
        /\ fetched.removed = "failed" =>
             /\ fetched.error = "remove"
             /\ maybe_tarball = "nullopt"
             /\ ~fetched.invoked
             /\ tarball = old_tarball
        /\ fetched.invoked => fetched.removed = "ok"
        /\ maybe_tarball = "path" =>
             /\ fetched.removed = "ok" /\ fetched.invoked
             /\ tarball # "stale"
             /\ ~Did("rmArchive") => tarball = "fresh"

\* C15 witness: a stale tarball could not be removed; the fetch returned no
\* archive and the run ended there.
C15_Witness ==
    /\ mode = "latest"
    /\ old_tarball = "stale"
    /\ fetched.removed = "failed"
    /\ Failed("download")
    /\ tarball = "stale"

\* ------------------------------------------------------------------- C16
\* The part of a harvest outcome that is not a metric call: the value
\* returned.  (The statement reached next is "exited" for every outcome.)
OutcomeFor(file) ==
    HarvestOutcome(maybe_telemetry_file_path, file, node_result).code

\* C16: once the delegate has exited, whatever telemetry file is found
\* (missing, unreadable, malformed, wrong-typed or valid), the run returns
\* the same value: every telemetry file gives the outcome that no file
\* gives, for the same delegate exit code, and the run that has returned has
\* returned that value after the same statements.
C16_TelemetryIndependent ==
    /\ pc = "harvest" =>
         \A f \in TelemetryFiles : OutcomeFor(f) = OutcomeFor(NoTelemetry)
    /\ Harvested =>
         /\ pc = "exited"
         /\ exit = [kind |-> "returned", at |-> "return",
                    code |-> OutcomeFor(NoTelemetry)]
         /\ SubSeq(steps, Len(steps) - 2, Len(steps)) =
              <<"exec", "wait", "harvest">>

\* C16 witness: a run with metrics enabled has returned a non-zero delegate
\* code although the telemetry file could not be parsed.
C16_Witness ==
    /\ Harvested
    /\ telemetry_read
    /\ telemetry_file.state = "malformed"
    /\ node_result = [signed |-> TRUE, value |-> 127]
    /\ exit.code = 127

\* ------------------------------------------------------------------- C17
\* The statements of a run in program order.
StageOrder ==
    <<"start", "download", "extract", "removeOld", "rename", "rmTemp",
      "rmArchive", "writeMarker", "checkMain", "build", "exec", "wait",
      "harvest">>
Rank(s) == IndexOf(StageOrder, s)

\* C17: the statements a run has executed are in program order, none twice:
\* version check, fetch, install, invocation build, delegate execution,
\* telemetry harvest, with one fetch and one install attempt at most; the
\* delegate is launched once at most, and after a fetch only when every
\* install statement and the entry-point check have succeeded; the telemetry
\* file is read only after the delegate has exited, and exactly when metrics
\* collection was enabled when the arguments were built.
C17_StagesInOrderOnce ==
    /\ \A i \in 1..(Len(steps) - 1) : Rank(steps[i]) < Rank(steps[i + 1])
    /\ Did("exec") =>
         /\ Did("start") /\ Did("build")
         /\ provision => Did("checkMain")
         /\ Did("download") =>
              \A i \in 1..Len(InstallSteps(mode)) :
                  Succeeded(InstallSteps(mode)[i])
    /\ (telemetry_read \/ tracked # <<>>) =>
         /\ Did("wait") /\ Harvested
         /\ metrics_enabled
    /\ Harvested => (telemetry_read <=> metrics_enabled)

\* C17 witness: a run went through every stage, in pinned mode with metrics
\* enabled, and read the telemetry file.
C17_Witness ==
    /\ steps = StageOrder
    /\ telemetry_read
    /\ tracked # <<>>

\* ------------------------------------------------------------------- C18
\* What a run that renamed its bundle into place then finds differs from what
\* it installed.
InstallationDamaged ==
    /\ Succeeded("rename")
    /\ Payload(vcpkg_artifacts_path) # Payload(bundle)
OtherDid(s) == \E i \in 1..Len(other.steps) : other.steps[i] = s

\* C18: with two runs interleaved on one root and no lock, a run can find
\* the installation it has just renamed into place missing or changed, and
\* its entry-point check can fail on a bundle that has an entry point; this
\* happens only through the other run's removal of the live directory.
C18_DamageOnlyByOtherRun ==
    /\ InstallationDamaged => OtherDid("removeOld")
    /\ (Failed("checkMain") /\ Succeeded("rename")
          /\ HasFile(bundle, MainJs)) => OtherDid("removeOld")

\* C18 witness: a run installed a bundle that has main.js, the other run then
\* removed the live directory, and the first run's entry-point check failed.
C18_Witness ==
    /\ Failed("checkMain")
    /\ Succeeded("rename")
    /\ HasFile(bundle, MainJs)
    /\ OtherDid("removeOld")

\* ------------------------------------------------------------------- C19
\* C19 as stated: the delegate is launched only if main.js exists in the
\* live installation at launch time, whether or not the root may be
\* provisioned.
C19_LaunchNeedsEntryPoint ==
    Did("exec") => HasFile(vcpkg_artifacts_path, MainJs)

\* C19 amended: on a root that may be provisioned the delegate is launched
\* only if main.js exists in the live installation at launch time, and a
\* missing main.js ends the run with a fatal error at the entry-point check;
\* on a read-only root the delegate is launched only if the installation
\* directory exists, whether or not it holds main.js.
C19_LaunchNeedsEntryPointIfProvisioning ==
    /\ (provision /\ (pc = "exec" \/ Did("exec"))) =>
         HasFile(vcpkg_artifacts_path, MainJs)
    /\ (provision /\ Did("checkMain")
          /\ ~HasFile(vcpkg_artifacts_path, MainJs)) =>
         /\ exit = Exit("fatal", "checkMain")
         /\ ~Did("build") /\ ~Did("exec")
    /\ (~provision /\ (pc = "exec" \/ Did("exec"))) =>
         vcpkg_artifacts_path.exists

\* C19 witness: on a root that may be provisioned, a bundle without main.js
\* was installed and the run ended at the entry-point check.
C19_Witness ==
    /\ provision
    /\ Succeeded("rename")
    /\ ~HasFile(vcpkg_artifacts_path, MainJs)
    /\ Failed("checkMain")

\* ------------------------------------------------------------------- C20
\* C20: in pinned mode, when the previous run fetched a bundle and every
\* install statement succeeded, the next run on the file system it left
\* finds the marker current, reports not-stale, executes no fetch or install
\* statement and leaves the installation directory and the tarball path as
\* it found them.
C20_SecondRunIdle ==
    (mode = "pinned" /\ provision /\ prev_installed) =>
        /\ MarkerCurrent(old)
        /\ pc = "start" => ~out_of_date
        /\ Did("start") => AfterGate = "checkMain"
        /\ NoProvisioning
        /\ temp = NoTemp

\* C20 witness: the second run, after a complete installation by the first,
\* has passed the gate and the entry-point check without a fetch.
C20_Witness ==
    /\ mode = "pinned" /\ provision /\ prev_installed
    /\ run = 2
    /\ steps = <<"start", "checkMain">>
    /\ pc = "build"
    /\ vcpkg_artifacts_path = old

====
